---- MODULE Spec2Model ----
(***************************************************************************)
(* Model of cvxportfolio's return-forecast and risk models                 *)
(* (cvxportfolio/returns.py, cvxportfolio/risks.py).                       *)
(*                                                                         *)
(* Floating-point values are modelled exactly: a number is a record        *)
(* [n, d, r] standing for sign(n) * (|n| / d) ^ (1 / r), r \in {1, 2}, in  *)
(* lowest terms; d = 0 is pandas' NaN.  r = 2 is what np.sqrt / .std()     *)
(* produce when the radicand is no perfect square.                         *)
(***************************************************************************)
EXTENDS Integers, Sequences, FiniteSets, TLC

VARIABLES
    returns,    \* the return panel the driver last handed to pre_evaluation
    obj,        \* the window model under evaluation: its instance attributes
    before,     \* history: returns and obj as the previous pre_evaluation left them
    risk,       \* the plain risk models of the compile path, by name
    wc,         \* the WorstCaseRisk object
    ret         \* the last call on a risk model of the compile path, with
                \* its arguments and what it returned or raised

vars == <<returns, obj, before, risk, wc, ret>>

(***************************************************************************)
(* Bounds of the model.                                                    *)
(***************************************************************************)
NPeriods == 4
MaxLookback == 3

(***************************************************************************)
(* Exact arithmetic.                                                       *)
(***************************************************************************)
AbsInt(x) == IF x < 0 THEN -x ELSE x

SgnInt(x) == IF x < 0 THEN -1 ELSE IF x = 0 THEN 0 ELSE 1

RECURSIVE Gcd(_, _)
Gcd(a, b) == IF b = 0 THEN a ELSE Gcd(b, a % b)

RECURSIVE Pow2(_)
Pow2(k) == IF k <= 0 THEN 1 ELSE 2 * Pow2(k - 1)

NaN == [n |-> 0, d |-> 0, r |-> 1]

IsNaN(x) == x.d = 0

Rat(n, d) ==
    IF d = 0 THEN NaN
    ELSE LET g == Gcd(AbsInt(n), AbsInt(d))
             s == IF d < 0 THEN -1 ELSE 1
         IN  [n |-> (s * n) \div g, d |-> (s * d) \div g, r |-> 1]

Num(i) == Rat(i, 1)

IsSquare(k) == \E i \in 0..k : i * i = k

ISqrt(k) == CHOOSE i \in 0..k : i * i = k

\* sign * sqrt(q) for a rational q >= 0, in canonical form
SignedRoot(sign, q) ==
    IF IsNaN(q) \/ q.n < 0 THEN NaN
    ELSE IF IsSquare(q.n) /\ IsSquare(q.d)
         THEN Rat(sign * ISqrt(q.n), ISqrt(q.d))
         ELSE [n |-> sign * q.n, d |-> q.d, r |-> 2]

Sgn(x) == SgnInt(x.n)

\* x squared, a rational
Square(x) ==
    IF IsNaN(x) THEN NaN
    ELSE IF x.r = 2 THEN Rat(AbsInt(x.n), x.d)
    ELSE Rat(x.n * x.n, x.d * x.d)

Add(x, y) ==
    IF IsNaN(x) \/ IsNaN(y) THEN NaN
    ELSE Rat(x.n * y.d + y.n * x.d, x.d * y.d)

Sub(x, y) ==
    IF IsNaN(x) \/ IsNaN(y) THEN NaN
    ELSE Rat(x.n * y.d - y.n * x.d, x.d * y.d)

Mul(x, y) ==
    IF IsNaN(x) \/ IsNaN(y) THEN NaN
    ELSE IF x.r = 1 /\ y.r = 1 THEN Rat(x.n * y.n, x.d * y.d)
    ELSE LET a == Square(x)
             b == Square(y)
         IN  SignedRoot(Sgn(x) * Sgn(y), Rat(a.n * b.n, a.d * b.d))

Div(x, y) ==
    IF IsNaN(x) \/ IsNaN(y) \/ y.n = 0 THEN NaN
    ELSE IF x.r = 1 /\ y.r = 1 THEN Rat(x.n * y.d, x.d * y.n)
    ELSE LET a == Square(x)
             b == Square(y)
         IN  SignedRoot(Sgn(x) * Sgn(y), Rat(a.n * b.d, a.d * b.n))

Sqrt(x) == IF IsNaN(x) \/ x.r # 1 THEN NaN ELSE SignedRoot(1, x)

RECURSIVE SumInts(_)
SumInts(s) == IF s = <<>> THEN 0 ELSE Head(s) + SumInts(Tail(s))

RECURSIVE SumNums(_)
SumNums(s) == IF s = <<>> THEN Num(0) ELSE Add(Head(s), SumNums(Tail(s)))

(***************************************************************************)
(* The return panel: NPeriods rows over the columns of Universe, the last  *)
(* column being cash.  Entries are integers (returns in a fixed unit).      *)
(***************************************************************************)
Universe == <<"AAA", "BBB", "CASH">>

NCols == Len(Universe)

RowChoices == { <<1, 2, 1>>, <<3, -1, 0>>, <<-2, 2, 2>> }

Times == 1..NPeriods

Panels == [Times -> RowChoices]

\* the revision of a row: the next candidate row
RevisedRow(row) ==
    CASE row = <<1, 2, 1>> -> <<3, -1, 0>>
      [] row = <<3, -1, 0>> -> <<-2, 2, 2>>
      [] OTHER -> <<1, 2, 1>>

\* the panels the driver may hand over next: P, or P with one row revised
Revisions(P) == {P} \cup { [P EXCEPT ![t] = RevisedRow(P[t])] : t \in Times }

\* the panel as a frame of numbers
AsFrame(P) == [t \in DOMAIN P |-> [j \in DOMAIN P[t] |-> Num(P[t][j])]]

NaNRow(width) == [j \in 1..width |-> NaN]

\* mutant of Shift: the frame is not shifted
Shift_unshifted(df, k) == df

\* DataFrame.shift(k): row t takes the value of row t - k, the first k are NaN
Shift(df, k) ==
    [t \in DOMAIN df |-> IF t - k < 1 THEN NaNRow(Len(df[1])) ELSE df[t - k]]

\* DataFrame.iloc[:, :-1]
DropLastColumn(df) == [t \in DOMAIN df |-> SubSeq(df[t], 1, Len(df[t]) - 1)]

\* DataFrame.iloc[:, -1]
LastColumn(df) == [t \in DOMAIN df |-> df[t][Len(df[t])]]

\* mutant of ShiftSeries: the series is not shifted
ShiftSeries_unshifted(s, k) == s

\* Series.shift(k)
ShiftSeries(s, k) == [t \in DOMAIN s |-> IF t - k < 1 THEN NaN ELSE s[t - k]]

\* df.iloc[:, -1] = s
SetLastColumn(df, s) ==
    [t \in DOMAIN df |-> [df[t] EXCEPT ![Len(df[t])] = s[t]]]

(***************************************************************************)
(* pandas window statistics over a frame of integers.                      *)
(* rolling(window=L) has min_periods = L: rows with fewer than L           *)
(* observations are NaN.  ewm(halflife=h) has adjust=True: the weight of   *)
(* the observation k periods back is 0.5^(k/h).                            *)
(***************************************************************************)
\* the L observations of column j ending at row t
Window(df, L, t, j) == [i \in 1..L |-> df[t - L + i][j]]

Dot(xs, ys) == SumInts([i \in DOMAIN xs |-> xs[i] * ys[i]])

\* mutant of RollingMean: min_periods = 1, a partial window gives its mean
RollingMean_partial(df, L) ==
    [t \in DOMAIN df |->
        [j \in DOMAIN df[t] |->
            IF t < L THEN Rat(SumInts(Window(df, t, t, j)), t)
            ELSE Rat(SumInts(Window(df, L, t, j)), L)]]

\* DataFrame.rolling(window=L).mean()
RollingMean(df, L) ==
    [t \in DOMAIN df |->
        [j \in DOMAIN df[t] |->
            IF t < L THEN NaN ELSE Rat(SumInts(Window(df, L, t, j)), L)]]

\* covariance of two equally long windows with ddof = 1:
\* (mean(x * y) - mean(x) * mean(y)) * count / (count - ddof)
SampleCov(xs, ys) ==
    LET cnt == Len(xs)
    IN  Mul(Rat(cnt * Dot(xs, ys) - SumInts(xs) * SumInts(ys), cnt * cnt),
            Rat(cnt, cnt - 1))

\* variance of a window with ddof = 1: the sum of squared deviations from
\* the mean, over (count - ddof)
SampleVar(xs) ==
    LET cnt == Len(xs)
        sx  == SumInts(xs)
    IN  Div(Rat(cnt * Dot(xs, xs) - sx * sx, cnt), Num(cnt - 1))

\* DataFrame.rolling(window=L).var()
RollingVar(df, L) ==
    [t \in DOMAIN df |->
        [j \in DOMAIN df[t] |->
            IF t < L THEN NaN ELSE SampleVar(Window(df, L, t, j))]]

\* DataFrame.rolling(window=L).std()
RollingStd(df, L) ==
    [t \in DOMAIN df |->
        [j \in DOMAIN df[t] |->
            IF t < L THEN NaN ELSE Sqrt(SampleVar(Window(df, L, t, j)))]]

\* DataFrame.rolling(window=L).cov(): one row per (timestamp, column), the
\* rows of a timestamp being consecutive (a MultiIndex frame)
RollingCov(df, L) ==
    LET M == Len(df[1])
    IN  [k \in 1..(Len(df) * M) |->
            LET t == ((k - 1) \div M) + 1
                a == ((k - 1) % M) + 1
            IN  [b \in 1..M |->
                    IF t < L THEN NaN
                    ELSE SampleCov(Window(df, L, t, a), Window(df, L, t, b))]]

\* the exponential half lives of the model: 0.5^(k/h) is rational for every
\* k only when h = 1
HalfLives == {1}

\* the weights 0.5^((t - i)/h) of rows i = 1..t as seen from row t, scaled
\* by 2^((t - 1)/h) to integers
EwmWeights(h, t) == [i \in 1..t |-> Pow2((i - 1) \div h)]

\* DataFrame.ewm(halflife=h).mean()
EwmMean(df, h) ==
    [t \in DOMAIN df |->
        [j \in DOMAIN df[t] |->
            LET ws == EwmWeights(h, t)
            IN  Rat(Dot(ws, Window(df, t, t, j)), SumInts(ws))]]

\* exponentially weighted covariance, bias=False: the weighted covariance
\* times sum_wt^2 / (sum_wt^2 - sum_wt2), NaN when that denominator is 0
EwmCovOf(ws, xs, ys) ==
    LET sw     == SumInts(ws)
        sw2    == Dot(ws, ws)
        wxy    == SumInts([i \in DOMAIN ws |-> ws[i] * xs[i] * ys[i]])
        biased == Rat(sw * wxy - Dot(ws, xs) * Dot(ws, ys), sw * sw)
    IN  IF sw * sw - sw2 > 0
        THEN Mul(Rat(sw * sw, sw * sw - sw2), biased)
        ELSE NaN

\* DataFrame.ewm(halflife=h).var()
EwmVar(df, h) ==
    [t \in DOMAIN df |->
        [j \in DOMAIN df[t] |->
            EwmCovOf(EwmWeights(h, t), Window(df, t, t, j), Window(df, t, t, j))]]

\* DataFrame.ewm(halflife=h).cov(): a MultiIndex frame like RollingCov
EwmCov(df, h) ==
    LET M == Len(df[1])
    IN  [k \in 1..(Len(df) * M) |->
            LET t == ((k - 1) \div M) + 1
                a == ((k - 1) % M) + 1
            IN  [b \in 1..M |->
                    EwmCovOf(EwmWeights(h, t), Window(df, t, t, a),
                             Window(df, t, t, b))]]

\* np.sqrt of a frame
SqrtFrame(df) == [t \in DOMAIN df |-> [j \in DOMAIN df[t] |-> Sqrt(df[t][j])]]

\* frame / scalar
DivFrame(df, x) == [t \in DOMAIN df |-> [j \in DOMAIN df[t] |-> Div(df[t][j], x)]]

(***************************************************************************)
(* Objects.  An object is the record of its instance attributes plus cls;  *)
(* an attribute that was never assigned is not in the record's domain.     *)
(***************************************************************************)
HasAttr(self, a) == a \in DOMAIN self

SetAttr(self, a, v) ==
    [x \in (DOMAIN self) \cup {a} |-> IF x = a THEN v ELSE self[x]]

\* ParameterEstimator(data): the time-indexed parameter holding data
ParameterEstimator(data, psd) == [data |-> data, positive_semi_definite |-> psd]

(***************************************************************************)
(* returns.py                                                              *)
(***************************************************************************)
RollingWindowReturnsForecast(lookback_period, use_last_for_cash) ==
    [cls |-> "RollingWindowReturnsForecast",
     lookback_period |-> lookback_period,
     use_last_for_cash |-> use_last_for_cash]

RollingWindowReturnsForecast_pre_evaluation(self, rets) ==
    LET forecasts == Shift(RollingMean(rets, self.lookback_period), 1)
        withcash  == IF self.use_last_for_cash
                     THEN SetLastColumn(forecasts,
                                        ShiftSeries(LastColumn(AsFrame(rets)), 1))
                     ELSE forecasts
    IN  SetAttr(self, "expected_returns", ParameterEstimator(withcash, FALSE))

ExponentialWindowReturnsForecast(half_life, use_last_for_cash) ==
    [cls |-> "ExponentialWindowReturnsForecast",
     half_life |-> half_life,
     use_last_for_cash |-> use_last_for_cash]

ExponentialWindowReturnsForecast_pre_evaluation(self, rets) ==
    LET forecasts == Shift(EwmMean(rets, self.half_life), 1)
        withcash  == IF self.use_last_for_cash
                     THEN SetLastColumn(forecasts,
                                        ShiftSeries(LastColumn(AsFrame(rets)), 1))
                     ELSE forecasts
    IN  SetAttr(self, "expected_returns", ParameterEstimator(withcash, FALSE))

RollingWindowReturnsForecastErrorRisk(lookback_period, zero_for_cash) ==
    [cls |-> "RollingWindowReturnsForecastErrorRisk",
     lookback_period |-> lookback_period,
     zero_for_cash |-> zero_for_cash]

\* mutant of the pre_evaluation below: the raw standard deviation
RollingWindowReturnsForecastErrorRisk_pre_evaluation_raw(self, rets) ==
    LET tmp  == Shift(RollingStd(rets, self.lookback_period), 1)
        zero == [t \in DOMAIN tmp |-> Num(0)]
        out  == IF self.zero_for_cash THEN SetLastColumn(tmp, zero) ELSE tmp
    IN  SetAttr(self, "deltas_errors", ParameterEstimator(out, FALSE))

RollingWindowReturnsForecastErrorRisk_pre_evaluation(self, rets) ==
    LET tmp  == DivFrame(Shift(RollingStd(rets, self.lookback_period), 1),
                         Sqrt(Num(self.lookback_period)))
        zero == [t \in DOMAIN tmp |-> Num(0)]
        out  == IF self.zero_for_cash THEN SetLastColumn(tmp, zero) ELSE tmp
    IN  SetAttr(self, "deltas_errors", ParameterEstimator(out, FALSE))

(***************************************************************************)
(* risks.py: the window covariance models                                  *)
(***************************************************************************)
RollingWindowFullCovariance(lookback_period) ==
    [cls |-> "RollingWindowFullCovariance", lookback_period |-> lookback_period]

RollingWindowFullCovariance_pre_evaluation(self, rets) ==
    LET nocash == DropLastColumn(rets)
    IN  SetAttr(self, "Sigma",
            ParameterEstimator(
                Shift(RollingCov(nocash, self.lookback_period), Len(nocash[1])),
                TRUE))

ExponentialWindowFullCovariance(half_life) ==
    [cls |-> "ExponentialWindowFullCovariance", half_life |-> half_life]

ExponentialWindowFullCovariance_pre_evaluation(self, rets) ==
    LET nocash == DropLastColumn(rets)
    IN  SetAttr(self, "Sigma",
            ParameterEstimator(
                Shift(EwmCov(nocash, self.half_life), Len(nocash[1])),
                TRUE))

RollingWindowDiagonalCovariance(lookback_period) ==
    [cls |-> "RollingWindowDiagonalCovariance",
     lookback_period |-> lookback_period]

RollingWindowDiagonalCovariance_pre_evaluation(self, rets) ==
    LET nocash == DropLastColumn(rets)
    IN  SetAttr(self, "standard_deviations",
            ParameterEstimator(
                SqrtFrame(Shift(RollingVar(nocash, self.lookback_period), 1)),
                FALSE))

ExponentialWindowDiagonalCovariance(half_life) ==
    [cls |-> "ExponentialWindowDiagonalCovariance", half_life |-> half_life]

ExponentialWindowDiagonalCovariance_pre_evaluation(self, rets) ==
    LET nocash == DropLastColumn(rets)
    IN  SetAttr(self, "standard_deviations",
            ParameterEstimator(
                SqrtFrame(Shift(EwmVar(nocash, self.half_life), 1)),
                FALSE))

\* the attribute a window model's pre_evaluation populates
ParamName(self) ==
    CASE self.cls \in {"RollingWindowReturnsForecast",
                       "ExponentialWindowReturnsForecast"} -> "expected_returns"
      [] self.cls = "RollingWindowReturnsForecastErrorRisk" -> "deltas_errors"
      [] self.cls \in {"RollingWindowFullCovariance",
                       "ExponentialWindowFullCovariance"} -> "Sigma"
      [] OTHER -> "standard_deviations"

Populated(self) == HasAttr(self, ParamName(self))

\* the value a time-indexed frame holds for the t-th timestamp: row t, or,
\* for a MultiIndex frame, the rows of timestamp t as a matrix
ValueInTime(data, t) ==
    LET per == Len(data) \div NPeriods
    IN  IF per = 1 THEN data[t]
        ELSE [a \in 1..per |-> data[(t - 1) * per + a]]

ParamAt(self, t) == ValueInTime(self[ParamName(self)].data, t)

(***************************************************************************)
(* The window models: construction, then pre_evaluation on the driver's    *)
(* panel, which the driver may have revised in one row since the last run. *)
(***************************************************************************)
Lookbacks == 1..MaxLookback

WindowModels ==
    { RollingWindowReturnsForecast(L, c) : L \in Lookbacks, c \in BOOLEAN }
    \cup { ExponentialWindowReturnsForecast(h, c) : h \in HalfLives, c \in BOOLEAN }
    \cup { RollingWindowReturnsForecastErrorRisk(L, c) :
             L \in Lookbacks, c \in BOOLEAN }
    \cup { RollingWindowFullCovariance(L) : L \in Lookbacks }
    \cup { ExponentialWindowFullCovariance(h) : h \in HalfLives }
    \cup { RollingWindowDiagonalCovariance(L) : L \in Lookbacks }
    \cup { ExponentialWindowDiagonalCovariance(h) : h \in HalfLives }

NoObject == [cls |-> "none"]

NoRun == [cls |-> "norun"]

InitWindow ==
    /\ returns \in Panels
    /\ obj \in WindowModels
    /\ before = NoRun
    /\ risk = NoObject
    /\ wc = NoObject
    /\ ret = NoObject

PreEvaluated(P, new) ==
    /\ returns' = P
    /\ obj' = new
    /\ before' = IF Populated(obj) THEN [returns |-> returns, obj |-> obj] ELSE NoRun
    /\ UNCHANGED <<risk, wc, ret>>

Step_RollingWindowReturnsForecast_pre_evaluation(P) ==
    /\ obj.cls = "RollingWindowReturnsForecast"
    /\ PreEvaluated(P, RollingWindowReturnsForecast_pre_evaluation(obj, P))

Step_ExponentialWindowReturnsForecast_pre_evaluation(P) ==
    /\ obj.cls = "ExponentialWindowReturnsForecast"
    /\ PreEvaluated(P, ExponentialWindowReturnsForecast_pre_evaluation(obj, P))

Step_RollingWindowReturnsForecastErrorRisk_pre_evaluation(P) ==
    /\ obj.cls = "RollingWindowReturnsForecastErrorRisk"
    /\ PreEvaluated(P, RollingWindowReturnsForecastErrorRisk_pre_evaluation(obj, P))

Step_RollingWindowFullCovariance_pre_evaluation(P) ==
    /\ obj.cls = "RollingWindowFullCovariance"
    /\ PreEvaluated(P, RollingWindowFullCovariance_pre_evaluation(obj, P))

Step_ExponentialWindowFullCovariance_pre_evaluation(P) ==
    /\ obj.cls = "ExponentialWindowFullCovariance"
    /\ PreEvaluated(P, ExponentialWindowFullCovariance_pre_evaluation(obj, P))

Step_RollingWindowDiagonalCovariance_pre_evaluation(P) ==
    /\ obj.cls = "RollingWindowDiagonalCovariance"
    /\ PreEvaluated(P, RollingWindowDiagonalCovariance_pre_evaluation(obj, P))

Step_ExponentialWindowDiagonalCovariance_pre_evaluation(P) ==
    /\ obj.cls = "ExponentialWindowDiagonalCovariance"
    /\ PreEvaluated(P, ExponentialWindowDiagonalCovariance_pre_evaluation(obj, P))

NextWindow ==
    \/ \E P \in Revisions(returns) : Step_RollingWindowReturnsForecast_pre_evaluation(P)
    \/ \E P \in Revisions(returns) : Step_ExponentialWindowReturnsForecast_pre_evaluation(P)
    \/ \E P \in Revisions(returns) : Step_RollingWindowReturnsForecastErrorRisk_pre_evaluation(P)
    \/ \E P \in Revisions(returns) : Step_RollingWindowFullCovariance_pre_evaluation(P)
    \/ \E P \in Revisions(returns) : Step_ExponentialWindowFullCovariance_pre_evaluation(P)
    \/ \E P \in Revisions(returns) : Step_RollingWindowDiagonalCovariance_pre_evaluation(P)
    \/ \E P \in Revisions(returns) : Step_ExponentialWindowDiagonalCovariance_pre_evaluation(P)

SpecWindow == InitWindow /\ [][NextWindow]_vars

(***************************************************************************)
(* Claims about the window models (checked under SpecWindow).              *)
(***************************************************************************)
AgreeBefore(P, Q, t) == \A i \in 1..(t - 1) : P[i] = Q[i]

MatrixHasNaN(S) == \E a \in DOMAIN S : \E b \in DOMAIN S[a] : IsNaN(S[a][b])

\* C1: no-lookahead.  Whenever the panel of the previous pre_evaluation and
\* the panel of this one agree on all rows before timestamp t, the parameter
\* value the model holds for t is the same in both runs, for every window
\* model class.
C1_NoLookahead ==
    before # NoRun =>
        \A t \in Times :
            AgreeBefore(before.returns, returns, t) =>
                ParamAt(obj, t) = ParamAt(before.obj, t)

\* a rolling full covariance re-evaluated after a revision of row t of the
\* panel: the value at t is defined and unchanged, the value at t + 1 changed
C1_Witness ==
    /\ before # NoRun
    /\ obj.cls = "RollingWindowFullCovariance"
    /\ \E t \in 2..(NPeriods - 1) :
        /\ AgreeBefore(before.returns, returns, t)
        /\ before.returns[t] # returns[t]
        /\ ~MatrixHasNaN(ParamAt(obj, t))
        /\ ParamAt(obj, t) = ParamAt(before.obj, t)
        /\ ParamAt(obj, t + 1) # ParamAt(before.obj, t + 1)

\* the arithmetic mean of the first L periods of column j
MeanOfFirst(P, L, j) == Rat(SumInts([i \in 1..L |-> P[i][j]]), L)

ForecastIsRollingMean(L, j) ==
    /\ \A t \in 1..L : t \in Times => IsNaN(obj.expected_returns.data[t][j])
    /\ (L + 1) \in Times =>
         obj.expected_returns.data[L + 1][j] = MeanOfFirst(returns, L, j)

\* C2 as stated: after pre_evaluation of a RollingWindowReturnsForecast with
\* window L, every column's forecast is missing at the first L timestamps
\* and is the mean of the first L periods at timestamp L + 1.
C2_Original ==
    (obj.cls = "RollingWindowReturnsForecast" /\ Populated(obj)) =>
        \A j \in 1..NCols : ForecastIsRollingMean(obj.lookback_period, j)

\* C2 as amended: the same for every column but the cash column of a model
\* built with use_last_for_cash = True.
C2_Amended ==
    (obj.cls = "RollingWindowReturnsForecast" /\ Populated(obj)) =>
        \A j \in 1..NCols :
            (j < NCols \/ ~obj.use_last_for_cash) =>
                ForecastIsRollingMean(obj.lookback_period, j)

\* a populated forecast with use_last_for_cash whose window fits the panel
\* more than once and whose asset forecast at timestamp L + 1 is defined
C2_Witness ==
    /\ obj.cls = "RollingWindowReturnsForecast"
    /\ Populated(obj)
    /\ obj.use_last_for_cash
    /\ obj.lookback_period >= 2
    /\ (obj.lookback_period + 1) \in Times
    /\ ~IsNaN(obj.expected_returns.data[obj.lookback_period + 1][1])
    /\ obj.expected_returns.data[obj.lookback_period + 1][1]
         # Num(returns[obj.lookback_period][1])

\* C3: with use_last_for_cash = True the cash forecast of a rolling or an
\* exponential returns forecast at every timestamp with a predecessor is the
\* realized cash return of the preceding timestamp.
C3_CashIsLast ==
    (/\ obj.cls \in {"RollingWindowReturnsForecast",
                     "ExponentialWindowReturnsForecast"}
     /\ Populated(obj)
     /\ obj.use_last_for_cash) =>
        \A t \in Times :
            t >= 2 => obj.expected_returns.data[t][NCols]
                        = Num(returns[t - 1][NCols])

\* an exponential forecast whose cash forecast differs from the forecast the
\* same model makes for cash without use_last_for_cash
C3_Witness ==
    /\ obj.cls = "ExponentialWindowReturnsForecast"
    /\ Populated(obj)
    /\ obj.use_last_for_cash
    /\ \E t \in Times :
        /\ t >= 3
        /\ obj.expected_returns.data[t][NCols]
             # Shift(EwmMean(returns, obj.half_life), 1)[t][NCols]

\* the sample variance of the L returns of column j preceding timestamp t:
\* the squared deviations from the window's mean, summed, over L - 1
VarianceBefore(P, L, t, j) ==
    LET xs == [i \in 1..L |-> P[t - L - 1 + i][j]]
        sx == SumInts(xs)
    IN  Rat(SumInts([i \in 1..L |-> (L * xs[i] - sx) * (L * xs[i] - sx)]),
            L * L * (L - 1))

\* C9: the forecast error of a non-cash asset at a timestamp with L
\* predecessors is the sample standard deviation of its L preceding returns
\* divided by sqrt(L): its square times L is the window's sample variance.
C9_StdOfMean ==
    (obj.cls = "RollingWindowReturnsForecastErrorRisk" /\ Populated(obj)) =>
        \A t \in Times : \A j \in 1..(NCols - 1) :
            t > obj.lookback_period =>
                LET L == obj.lookback_period
                    e == obj.deltas_errors.data[t][j]
                    V == VarianceBefore(returns, L, t, j)
                IN  /\ Mul(Square(e), Num(L)) = V
                    /\ e = Div(Sqrt(V), Sqrt(Num(L)))

\* a populated error model with a defined, non-zero error that is not the
\* raw standard deviation of the window
C9_Witness ==
    /\ obj.cls = "RollingWindowReturnsForecastErrorRisk"
    /\ Populated(obj)
    /\ \E t \in Times : \E j \in 1..(NCols - 1) :
        /\ t > obj.lookback_period
        /\ ~IsNaN(obj.deltas_errors.data[t][j])
        /\ obj.deltas_errors.data[t][j].n # 0
        /\ obj.deltas_errors.data[t][j]
             # Sqrt(VarianceBefore(returns, obj.lookback_period, t, j))

\* C10 as stated: the covariance a rolling or exponential full covariance
\* model holds for a timestamp has one row and one column per column of the
\* panel, those of cash being zero.
C10_FullDimension ==
    (/\ obj.cls \in {"RollingWindowFullCovariance",
                     "ExponentialWindowFullCovariance"}
     /\ Populated(obj)) =>
        \A t \in Times :
            LET S == ParamAt(obj, t)
            IN  /\ Len(S) = NCols
                /\ \A a \in 1..NCols :
                    /\ Len(S[a]) = NCols
                    /\ S[a][NCols] = Num(0)
                    /\ S[NCols][a] = Num(0)

(***************************************************************************)
(* risks.py: the compile path.  A cvxpy term is modelled by the value it   *)
(* takes at the holdings it was built on; a call returns an expression, a  *)
(* Python tuple, a pandas Series or None, or raises.                       *)
(***************************************************************************)
Expr(v) == [kind |-> "expr", value |-> v]

Tuple(items) == [kind |-> "tuple", items |-> items]

Series(index, data) == [kind |-> "series", index |-> index, data |-> data]

Raise(exc) == [kind |-> "raise", exc |-> exc]

None == [kind |-> "none"]

Less(x, y) == x.n * y.d < y.n * x.d

\* numpy broadcast of a scalar over dim entries
Broadcast(x, dim) == [i \in 1..dim |-> x]

VecSub(x, y) == [i \in DOMAIN x |-> Sub(x[i], y[i])]

DotNums(x, y) == SumNums([i \in DOMAIN x |-> Mul(x[i], y[i])])

MatVec(M, x) == [a \in DOMAIN M |-> DotNums(M[a], x)]

\* cvx.multiply: the elementwise product
Multiply(x, y) == [i \in DOMAIN x |-> Mul(x[i], y[i])]

\* cvx.sum_squares
SumSquares(x) == Expr(SumNums([i \in DOMAIN x |-> Square(x[i])]))

\* cvx.quad_form(x, P) = x^T P x; the dimensions must agree
QuadForm(x, P) ==
    IF Len(x) # Len(P) THEN Raise("ValueError")
    ELSE Expr(DotNums(x, MatVec(P, x)))

\* cvx.max_elemwise(*args): the maximum of at least two expressions; an
\* argument that is no expression (a tuple) cannot be made one
MaxOf(vals) ==
    CHOOSE m \in {vals[i] : i \in DOMAIN vals} :
        \A i \in DOMAIN vals : ~Less(m, vals[i])

MaxElemwise(args) ==
    IF Len(args) < 2 \/ \E i \in DOMAIN args : args[i].kind # "expr"
    THEN Raise("TypeError")
    ELSE Expr(MaxOf([i \in DOMAIN args |-> args[i].value]))

\* BaseRiskModel: the class attribute benchmark_weights = 0.0 is what an
\* instance without the attribute reads
BaseRiskModel_benchmark_weights(self, dim) ==
    IF HasAttr(self, "benchmark_weights") THEN self.benchmark_weights.data
    ELSE Broadcast(Num(0), dim)

\* BaseRiskModel.__init__: self.w_bench = kwargs.pop("w_bench", 0.0)
BaseRiskModel_init(self) == SetAttr(self, "w_bench", Num(0))

BaseRiskModel_set_benchmark(self, benchmark_weights) ==
    SetAttr(self, "benchmark_weights", ParameterEstimator(benchmark_weights, FALSE))

FullCovariance(Sigma) ==
    SetAttr(BaseRiskModel_init([cls |-> "FullCovariance"]),
            "Sigma", ParameterEstimator(Sigma, TRUE))

FullCovariance_compile_to_cvxpy(self, w_plus, z, value) ==
    QuadForm(VecSub(w_plus, BaseRiskModel_benchmark_weights(self, Len(w_plus))),
             self.Sigma.data)

\* DiagonalCovariance.__init__ does not call BaseRiskModel.__init__
DiagonalCovariance(standard_deviations) ==
    [cls |-> "DiagonalCovariance",
     standard_deviations |-> ParameterEstimator(standard_deviations, FALSE)]

\* mutant of the compile below: the standard deviations taken for variances
DiagonalCovariance_compile_to_cvxpy_variances(self, w_plus, z, value) ==
    Expr(SumNums([i \in DOMAIN w_plus |->
            Mul(Square(w_plus[i]), self.standard_deviations.data[i])]))

DiagonalCovariance_compile_to_cvxpy(self, w_plus, z, value) ==
    SumSquares(Multiply(w_plus, self.standard_deviations.data))

FactorModelSigma(exposures, factor_Sigma, idiosync) ==
    BaseRiskModel_init(
        [cls |-> "FactorModelSigma",
         exposures |-> ParameterEstimator(exposures, FALSE),
         factor_Sigma |-> ParameterEstimator(factor_Sigma, FALSE),
         idiosync |-> ParameterEstimator(idiosync, FALSE)])

\* the names bound at module level in risks.py
ModuleNames ==
    {"logging", "cvx", "np", "pd", "BaseCost", "values_in_time", "logger",
     "ParameterEstimator", "BaseRiskModel", "FullCovariance",
     "RollingWindowFullCovariance", "ExponentialWindowFullCovariance",
     "DiagonalCovariance", "RollingWindowDiagonalCovariance",
     "ExponentialWindowDiagonalCovariance", "EmpSigma", "FactorModelSigma",
     "RobustSigma", "RobustFactorModelSigma", "WorstCaseRisk"}

\* sum_squares(multiply(sqrt(idiosync), w)) + quad_form((w.T @ F.T).T, Sigma_F)
FactorTerm(self, w) ==
    LET idio == SumSquares(Multiply([i \in DOMAIN w |-> Sqrt(self.idiosync.data[i])], w))
        fact == QuadForm(MatVec(self.exposures.data, w), self.factor_Sigma.data)
    IN  IF fact.kind = "raise" THEN fact ELSE Expr(Add(idio.value, fact.value))

\* the body reads the name wplus; the parameter is w_plus
FactorModelSigma_compile_to_cvxpy(self, w_plus, z, value) ==
    LET locals == [self |-> self, w_plus |-> w_plus, z |-> z, value |-> value]
    IN  IF "wplus" \notin (DOMAIN locals) \cup ModuleNames
        THEN [self |-> self, out |-> Raise("NameError")]
        ELSE LET e == FactorTerm(self, locals["wplus"])
             IN  [self |-> IF e.kind = "expr" THEN SetAttr(self, "expression", e)
                           ELSE self,
                  out |-> e]

WorstCaseRisk(riskmodels) ==
    BaseRiskModel_init([cls |-> "WorstCaseRisk", riskmodels |-> riskmodels])

RECURSIVE BaseRiskModel_weight_expr(_, _, _, _, _)
RECURSIVE WeightExprEach(_, _, _, _, _, _)
RECURSIVE WorstCaseRisk__estimate(_, _, _, _, _)
RECURSIVE Estimate(_, _, _, _, _)

\* BaseCost._estimate, inherited by the models that define compile_to_cvxpy
\* only: the compiled term and no constraints
BaseCost__estimate(self, t, w_plus, z, value) ==
    LET e == IF self.cls = "FullCovariance"
             THEN FullCovariance_compile_to_cvxpy(self, w_plus, z, value)
             ELSE DiagonalCovariance_compile_to_cvxpy(self, w_plus, z, value)
    IN  [self |-> self,
         out |-> IF e.kind = "raise" THEN e ELSE Tuple(<<e, <<>>>>)]

\* self._estimate by method resolution
Estimate(self, t, w_plus, z, value) ==
    IF self.cls = "WorstCaseRisk"
    THEN WorstCaseRisk__estimate(self, t, w_plus, z, value)
    ELSE BaseCost__estimate(self, t, w_plus, z, value)

\* self.expression, _ = self._estimate(t, w_plus - self.w_bench, z, value)
\* return self.expression, []
BaseRiskModel_weight_expr(self, t, w_plus, z, value) ==
    IF ~HasAttr(self, "w_bench")
    THEN [self |-> self, out |-> Raise("AttributeError")]
    ELSE LET est == Estimate(self, t,
                       VecSub(w_plus, Broadcast(self.w_bench, Len(w_plus))),
                       z, value)
         IN  IF est.out.kind = "raise" THEN est
             ELSE IF est.out.kind # "tuple"
                  THEN [self |-> est.self, out |-> Raise("TypeError")]
             ELSE [self |-> SetAttr(est.self, "expression", est.out.items[1]),
                   out |-> Tuple(<<est.out.items[1], <<>>>>)]

\* [risk.weight_expr(t, wplus, z, value) for risk in models], from the i-th
\* on: the models as the calls leave them and what the calls returned, up
\* to the first that raises
WeightExprEach(models, i, t, wplus, z, value) ==
    IF i > Len(models) THEN [models |-> models, outs |-> <<>>, raised |-> None]
    ELSE LET r == BaseRiskModel_weight_expr(models[i], t, wplus, z, value)
             m == [models EXCEPT ![i] = r.self]
         IN  IF r.out.kind = "raise"
             THEN [models |-> m, outs |-> <<>>, raised |-> r.out]
             ELSE LET rest == WeightExprEach(m, i + 1, t, wplus, z, value)
                  IN  [models |-> rest.models,
                       outs |-> <<r.out>> \o rest.outs,
                       raised |-> rest.raised]

WorstCaseRisk__estimate(self, t, wplus, z, value) ==
    LET each == WeightExprEach(self.riskmodels, 1, t, wplus, z, value)
        held == [self EXCEPT !.riskmodels = each.models]
    IN  IF each.raised # None THEN [self |-> held, out |-> each.raised]
        ELSE [self |-> SetAttr(held, "risks", each.outs),
              out |-> MaxElemwise(each.outs)]

\* pd.Series(index=[class names], data=[risk.value[0, 0] for risk in self.risks])
WorstCaseRisk_optimization_log(self, t) ==
    IF ~HasAttr(self, "risks") THEN Raise("AttributeError")
    ELSE IF \E i \in DOMAIN self.risks : self.risks[i].kind # "expr"
         THEN Raise("AttributeError")
    ELSE Series([i \in DOMAIN self.riskmodels |-> self.riskmodels[i].cls],
                [i \in DOMAIN self.risks |-> self.risks[i].value])

(***************************************************************************)
(* The compile path: risk models over two assets built from user-supplied  *)
(* constants, then any sequence of set_benchmark, compile_to_cvxpy,        *)
(* weight_expr and optimization_log calls.                                 *)
(***************************************************************************)
Vec(a, b, den) == <<Rat(a, den), Rat(b, den)>>

StdVectors == { Vec(10, 20, 100), Vec(30, 5, 100) }

DiagOfSquares(sd) ==
    [a \in DOMAIN sd |-> [b \in DOMAIN sd |->
        IF a = b THEN Square(sd[a]) ELSE Num(0)]]

Sigmas ==
    { DiagOfSquares(sd) : sd \in StdVectors }
    \cup { << Vec(4, 1, 100), Vec(1, 9, 100) >> }

Holdings == { Vec(5, -5, 10), Vec(5, 5, 10), Vec(10, 0, 10) }

Benchmarks == { Vec(0, 0, 10), Vec(5, 5, 10), Vec(10, 0, 10) }

FactorModels ==
    { FactorModelSigma(<< Vec(10, 5, 10) >>, << <<Rat(1, 4)>> >>, Vec(1, 4, 100)),
      FactorModelSigma(<< Vec(10, 0, 10), Vec(-5, 5, 10) >>,
                       << Vec(4, 1, 100), Vec(1, 9, 100) >>, Vec(0, 1, 100)) }

ComponentLists ==
    { << DiagonalCovariance(Vec(10, 20, 100)), DiagonalCovariance(Vec(30, 5, 100)) >>,
      << FullCovariance(DiagOfSquares(Vec(10, 20, 100))),
         FullCovariance(DiagOfSquares(Vec(30, 5, 100))) >>,
      << FullCovariance(<< Vec(4, 1, 100), Vec(1, 9, 100) >>),
         DiagonalCovariance(Vec(30, 5, 100)) >> }

\* arguments compile ignores in these models
NoTrades == "z"
NoValue == "value"

Called(call, on, w_plus, result) ==
    [call |-> call, on |-> on, w_plus |-> w_plus, result |-> result]

InitCompile ==
    /\ returns = <<>>
    /\ obj = NoObject
    /\ before = NoRun
    /\ \E S \in Sigmas : \E sd \in StdVectors : \E f \in FactorModels :
         risk = [full |-> FullCovariance(S),
                 diag |-> DiagonalCovariance(sd),
                 factor |-> f]
    /\ wc \in { WorstCaseRisk(c) : c \in ComponentLists }
    /\ ret = Called("__init__", "all", <<>>, None)

Step_set_benchmark(on, benchmark_weights) ==
    /\ risk' = [risk EXCEPT ![on] = BaseRiskModel_set_benchmark(@, benchmark_weights)]
    /\ ret' = Called("set_benchmark", on, benchmark_weights, None)
    /\ UNCHANGED <<returns, obj, before, wc>>

Step_FullCovariance_compile_to_cvxpy(w_plus) ==
    /\ ret' = Called("compile_to_cvxpy", "full", w_plus,
                     FullCovariance_compile_to_cvxpy(risk.full, w_plus, NoTrades, NoValue))
    /\ UNCHANGED <<returns, obj, before, risk, wc>>

Step_DiagonalCovariance_compile_to_cvxpy(w_plus) ==
    /\ ret' = Called("compile_to_cvxpy", "diag", w_plus,
                     DiagonalCovariance_compile_to_cvxpy(risk.diag, w_plus, NoTrades, NoValue))
    /\ UNCHANGED <<returns, obj, before, risk, wc>>

Step_FactorModelSigma_compile_to_cvxpy(w_plus) ==
    LET r == FactorModelSigma_compile_to_cvxpy(risk.factor, w_plus, NoTrades, NoValue)
    IN  /\ risk' = [risk EXCEPT !.factor = r.self]
        /\ ret' = Called("compile_to_cvxpy", "factor", w_plus, r.out)
        /\ UNCHANGED <<returns, obj, before, wc>>

Step_WorstCaseRisk_weight_expr(t, w_plus) ==
    LET r == BaseRiskModel_weight_expr(wc, t, w_plus, NoTrades, NoValue)
    IN  /\ wc' = r.self
        /\ ret' = Called("weight_expr", "wc", w_plus, r.out)
        /\ UNCHANGED <<returns, obj, before, risk>>

Step_WorstCaseRisk_optimization_log(t) ==
    /\ ret' = Called("optimization_log", "wc", <<>>, WorstCaseRisk_optimization_log(wc, t))
    /\ UNCHANGED <<returns, obj, before, risk, wc>>

NextCompile ==
    \/ \E on \in {"full", "diag"} : \E b \in Benchmarks : Step_set_benchmark(on, b)
    \/ \E w \in Holdings : Step_FullCovariance_compile_to_cvxpy(w)
    \/ \E w \in Holdings : Step_DiagonalCovariance_compile_to_cvxpy(w)
    \/ \E w \in Holdings : Step_FactorModelSigma_compile_to_cvxpy(w)
    \/ \E w \in Holdings : Step_WorstCaseRisk_weight_expr(1, w)
    \/ Step_WorstCaseRisk_optimization_log(1)

SpecCompile == InitCompile /\ [][NextCompile]_vars

(***************************************************************************)
(* Claims about the compile path (checked under SpecCompile).              *)
(***************************************************************************)
\* compile_to_cvxpy of a plain covariance model, by its class
CompileOf(self, w_plus) ==
    IF self.cls = "FullCovariance"
    THEN FullCovariance_compile_to_cvxpy(self, w_plus, NoTrades, NoValue)
    ELSE DiagonalCovariance_compile_to_cvxpy(self, w_plus, NoTrades, NoValue)

\* C4: with the same benchmark weights set on both models and
\* Sigma = diag(s^2), DiagonalCovariance.compile_to_cvxpy returns what
\* FullCovariance.compile_to_cvxpy returns on the same holdings: the sum of
\* the squared deviations from the benchmark times the variances.
C4_DiagEqualsFull ==
    (/\ ret.call = "compile_to_cvxpy"
     /\ ret.on = "diag"
     /\ HasAttr(risk.diag, "benchmark_weights")
     /\ HasAttr(risk.full, "benchmark_weights")
     /\ risk.diag.benchmark_weights = risk.full.benchmark_weights
     /\ risk.full.Sigma.data = DiagOfSquares(risk.diag.standard_deviations.data)) =>
        LET dev == VecSub(ret.w_plus, risk.diag.benchmark_weights.data)
            sd  == risk.diag.standard_deviations.data
        IN  /\ ret.result = FullCovariance_compile_to_cvxpy(risk.full, ret.w_plus,
                                                            NoTrades, NoValue)
            /\ ret.result = Expr(SumNums([i \in DOMAIN dev |->
                                    Mul(Square(dev[i]), Square(sd[i]))]))

\* exposures^T * factor_Sigma * exposures + diag(idiosync)
ExpandedSigma(F, SF, D) ==
    [a \in DOMAIN D |-> [b \in DOMAIN D |->
        Add(SumNums([k \in DOMAIN F |->
                SumNums([l \in DOMAIN F |-> Mul(Mul(F[k][a], SF[k][l]), F[l][b])])]),
            IF a = b THEN D[a] ELSE Num(0))]]

\* C5: FactorModelSigma.compile_to_cvxpy returns a term, whose value is that
\* of FullCovariance.compile_to_cvxpy with the expanded Sigma.
C5_FactorEqualsFull ==
    (ret.call = "compile_to_cvxpy" /\ ret.on = "factor") =>
        /\ ret.result.kind = "expr"
        /\ ret.result =
             FullCovariance_compile_to_cvxpy(
                 FullCovariance(ExpandedSigma(risk.factor.exposures.data,
                                              risk.factor.factor_Sigma.data,
                                              risk.factor.idiosync.data)),
                 ret.w_plus, NoTrades, NoValue)

\* the maximum of the components' own compiled values at the holdings of
\* the last call
ComponentMax ==
    MaxOf([i \in DOMAIN wc.riskmodels |->
              CompileOf(wc.riskmodels[i], ret.w_plus).value])

\* C6: the term WorstCaseRisk.weight_expr returns has, at the holdings it
\* was built on, the maximum of the components' own values there.
C6_WorstCaseIsMax ==
    (ret.call = "weight_expr" /\ ret.on = "wc") =>
        /\ ret.result.kind = "tuple"
        /\ ret.result.items[1] = Expr(ComponentMax)

\* C7: once WorstCaseRisk has been estimated, optimization_log returns one
\* entry per component, in constructor order, each the value of that
\* component's own term.
C7_LogEveryComponent ==
    (ret.call = "optimization_log" /\ ret.on = "wc" /\ HasAttr(wc, "risks")) =>
        /\ ret.result.kind = "series"
        /\ ret.result.index = [i \in DOMAIN wc.riskmodels |-> wc.riskmodels[i].cls]
        /\ ret.result.data = [i \in DOMAIN wc.riskmodels |->
                                 wc.riskmodels[i].expression.value]

\* the scenario of C8
ScenarioHoldings == Vec(5, -5, 10)
ScenarioStdA == Vec(10, 20, 100)
ScenarioStdB == Vec(30, 5, 100)
ScenarioComponents == <<DiagonalCovariance(ScenarioStdA), DiagonalCovariance(ScenarioStdB)>>

DiagCompiledAt(sd, w) ==
    /\ ret.call = "compile_to_cvxpy"
    /\ ret.on = "diag"
    /\ ret.w_plus = w
    /\ risk.diag.standard_deviations.data = sd

WorstCaseCalledOn(models, w) ==
    /\ ret.call = "weight_expr"
    /\ ret.on = "wc"
    /\ ret.w_plus = w
    /\ [i \in DOMAIN wc.riskmodels |-> wc.riskmodels[i].cls]
         = [i \in DOMAIN models |-> models[i].cls]
    /\ \A i \in DOMAIN models :
         wc.riskmodels[i].standard_deviations = models[i].standard_deviations

IsRaise(x) == "kind" \in DOMAIN x /\ x.kind = "raise"

\* pd.isnull(df) anywhere in a frame or matrix
IsNull(df) == \E t \in DOMAIN df : \E j \in DOMAIN df[t] : IsNaN(df[t][j])

\* Series.isnull().values.any()
IsNullSeries(s) == \E j \in DOMAIN s : IsNaN(s[j])

ReturnsForecast(expected_returns) ==
    [cls |-> "ReturnsForecast",
     expected_returns |-> ParameterEstimator(expected_returns, FALSE)]

ReturnsForecastErrorRisk(deltas_errors) ==
    [cls |-> "ReturnsForecastErrorRisk",
     deltas_errors |-> ParameterEstimator(deltas_errors, FALSE)]

\* mutant of the constructor below: an instance without parameters
ExponentialWindowReturnsForecastErrorRisk_instance ==
    [cls |-> "ExponentialWindowReturnsForecastErrorRisk"]

\* __init__(self): raise NotImplementedError
ExponentialWindowReturnsForecastErrorRisk == Raise("NotImplementedError")

MPOReturnsForecast(alpha_data) ==
    [cls |-> "MPOReturnsForecast", alpha_data |-> alpha_data]

MultipleReturnsForecasts(alpha_sources, weights) ==
    [cls |-> "MultipleReturnsForecasts",
     alpha_sources |-> alpha_sources, weights |-> weights]

\* assert not np.any(pd.isnull(returns)), before BaseRiskModel.__init__
EmpSigma(rets, lookback) ==
    IF IsNull(rets) THEN Raise("AssertionError")
    ELSE BaseRiskModel_init([cls |-> "EmpSigma",
                             returns |-> rets, lookback |-> lookback])

RobustSigma(Sigma, epsilon) ==
    BaseRiskModel_init([cls |-> "RobustSigma", Sigma |-> Sigma, epsilon |-> epsilon])

RobustFactorModelSigma(exposures, factor_Sigma, idiosync, epsilon) ==
    IF IsNull(exposures) \/ IsNull(factor_Sigma) \/ IsNullSeries(idiosync)
    THEN Raise("AssertionError")
    ELSE BaseRiskModel_init([cls |-> "RobustFactorModelSigma",
                             exposures |-> exposures,
                             factor_Sigma |-> factor_Sigma,
                             idiosync |-> idiosync,
                             epsilon |-> epsilon])

\* a frame whose last row, the latest period, holds no data
WithNull(df) == [df EXCEPT ![Len(df)] = NaNRow(Len(df[1]))]

\* the data a constructor may be handed: the panel, clean or with a null row
Frames(P) == { AsFrame(P), WithNull(AsFrame(P)) }

Construction(cls, nulls, out) == [cls |-> cls, nulls |-> nulls, out |-> out]

\* the constructor calls of the driver: class, whether the data handed over
\* holds a null, and what __init__ leaves
Constructions(P) ==
    { Construction(m.cls, FALSE, m) : m \in WindowModels }
    \cup { Construction("ReturnsForecast", IsNull(df), ReturnsForecast(df)) :
             df \in Frames(P) }
    \cup { Construction("ReturnsForecastErrorRisk", IsNull(df),
                        ReturnsForecastErrorRisk(df)) : df \in Frames(P) }
    \cup { Construction("ExponentialWindowReturnsForecastErrorRisk", FALSE,
                        ExponentialWindowReturnsForecastErrorRisk) }
    \cup { Construction("MPOReturnsForecast", IsNull(df), MPOReturnsForecast(df)) :
             df \in Frames(P) }
    \cup { Construction("MultipleReturnsForecasts", FALSE,
                        MultipleReturnsForecasts(
                            << ReturnsForecast(AsFrame(P)) >>, << Num(1) >>)) }
    \cup { Construction("FullCovariance", FALSE, FullCovariance(S)) : S \in Sigmas }
    \cup { Construction("DiagonalCovariance", FALSE, DiagonalCovariance(sd)) :
             sd \in StdVectors }
    \cup { Construction("FactorModelSigma", FALSE, f) : f \in FactorModels }
    \cup { Construction("WorstCaseRisk", FALSE, WorstCaseRisk(c)) :
             c \in ComponentLists }
    \cup { Construction("EmpSigma", IsNull(df), EmpSigma(df, L)) :
             df \in Frames(P), L \in Lookbacks }
    \cup { Construction("RobustSigma", FALSE, RobustSigma(S, Rat(1, 10))) :
             S \in Sigmas }
    \cup { Construction("RobustFactorModelSigma", IsNull(S),
                        RobustFactorModelSigma(<< Vec(10, 5, 10) >>, S,
                                               Vec(1, 4, 100), Rat(1, 10))) :
             S \in { << <<Rat(1, 4)>> >>, << <<NaN>> >> } }

CalledWith(call, on, args, result) ==
    [call |-> call, on |-> on, args |-> args, result |-> result]

\* obj = Class(...): the name is rebound only if __init__ returns
Step_construct(c) ==
    /\ obj' = IF IsRaise(c.out) THEN obj ELSE c.out
    /\ before' = IF IsRaise(c.out) THEN before ELSE NoRun
    /\ ret' = CalledWith("__init__", c.cls, [nulls |-> c.nulls],
                         IF IsRaise(c.out) THEN c.out ELSE None)
    /\ UNCHANGED <<returns, risk, wc>>

IsWindowModel(self) ==
    self.cls \in {"RollingWindowReturnsForecast", "ExponentialWindowReturnsForecast",
                  "RollingWindowReturnsForecastErrorRisk",
                  "RollingWindowFullCovariance", "ExponentialWindowFullCovariance",
                  "RollingWindowDiagonalCovariance",
                  "ExponentialWindowDiagonalCovariance"}

\* self.pre_evaluation by method resolution
PreEvaluation(self, rets) ==
    CASE self.cls = "RollingWindowReturnsForecast" ->
           RollingWindowReturnsForecast_pre_evaluation(self, rets)
      [] self.cls = "ExponentialWindowReturnsForecast" ->
           ExponentialWindowReturnsForecast_pre_evaluation(self, rets)
      [] self.cls = "RollingWindowReturnsForecastErrorRisk" ->
           RollingWindowReturnsForecastErrorRisk_pre_evaluation(self, rets)
      [] self.cls = "RollingWindowFullCovariance" ->
           RollingWindowFullCovariance_pre_evaluation(self, rets)
      [] self.cls = "ExponentialWindowFullCovariance" ->
           ExponentialWindowFullCovariance_pre_evaluation(self, rets)
      [] self.cls = "RollingWindowDiagonalCovariance" ->
           RollingWindowDiagonalCovariance_pre_evaluation(self, rets)
      [] OTHER ->
           ExponentialWindowDiagonalCovariance_pre_evaluation(self, rets)

\* the model with its time-indexed parameter resolved at timestamp t
Resolved(self, t) ==
    [self EXCEPT ![ParamName(self)] =
        ParameterEstimator(ParamAt(self, t), @.positive_semi_definite)]

Abs(x) == [x EXCEPT !.n = AbsInt(x.n)]

\* ReturnsForecast.compile_to_cvxpy: w_plus.T @ self.expected_returns
ReturnsForecast_compile_to_cvxpy(self, w_plus, z, v) ==
    IF Len(w_plus) # Len(self.expected_returns.data) THEN Raise("ValueError")
    ELSE Expr(DotNums(w_plus, self.expected_returns.data))

\* ReturnsForecastErrorRisk.compile_to_cvxpy:
\* cvx.abs(w_plus - self.benchmark_weights).T @ self.deltas_errors, a sum of
\* surds, kept as its summands
ReturnsForecastErrorRisk_compile_to_cvxpy(self, w_plus, z, v) ==
    IF Len(w_plus) # Len(self.deltas_errors.data) THEN Raise("ValueError")
    ELSE LET dev == VecSub(w_plus,
                           BaseRiskModel_benchmark_weights(self, Len(w_plus)))
         IN  Expr([summands |->
                     [i \in DOMAIN dev |->
                         Mul(Abs(dev[i]), self.deltas_errors.data[i])]])

\* compile_to_cvxpy by method resolution, on the parameter resolved at t;
\* cvxpy refuses operands whose dimensions differ
Compile(self, t, w_plus) ==
    LET at == Resolved(self, t)
        p  == ParamName(self)
    IN  CASE p = "expected_returns" ->
               ReturnsForecast_compile_to_cvxpy(at, w_plus, NoTrades, NoValue)
          [] p = "deltas_errors" ->
               ReturnsForecastErrorRisk_compile_to_cvxpy(at, w_plus, NoTrades, NoValue)
          [] p = "Sigma" ->
               FullCovariance_compile_to_cvxpy(at, w_plus, NoTrades, NoValue)
          [] OTHER ->
               IF Len(w_plus) # Len(at.standard_deviations.data)
               THEN Raise("ValueError")
               ELSE DiagonalCovariance_compile_to_cvxpy(at, w_plus, NoTrades, NoValue)

\* mutant of the compile below: a parameter of zeros where none was derived
CompileToCvxpy_default(self, t, w_plus) ==
    IF ~Populated(self) THEN Expr(Num(0)) ELSE Compile(self, t, w_plus)

\* self.<parameter> is read by attribute access: absent, AttributeError
CompileToCvxpy(self, t, w_plus) ==
    IF ~Populated(self) THEN Raise("AttributeError") ELSE Compile(self, t, w_plus)

\* list.__getitem__(slice(start, stop)) over n rows: the 0-based positions
PySlice(start, stop, n) ==
    LET norm(i) == IF i < 0 THEN (IF i + n < 0 THEN 0 ELSE i + n)
                   ELSE IF i > n THEN n ELSE i
    IN  { i \in 0..(n - 1) : norm(start) <= i /\ i < norm(stop) }

Max(a, b) == IF a >= b THEN a ELSE b

\* R = self.returns.iloc[max(idx - 1 - self.lookback, 0) : idx - 1], as the
\* timestamps of its rows
EmpSigma_rows(self, t) ==
    LET idx == t - 1
    IN  { i + 1 : i \in PySlice(Max(idx - 1 - self.lookback, 0), idx - 1,
                                Len(self.returns)) }

RECURSIVE SumOver(_, _)
SumOver(f, S) ==
    IF S = {} THEN Num(0)
    ELSE LET x == CHOOSE y \in S : TRUE
         IN  Add(f[x], SumOver(f, S \ {x}))

\* EmpSigma._estimate: sum_squares(R.values * wplus) / self.lookback
EmpSigma__estimate(self, t, wplus, z, value) ==
    LET R == EmpSigma_rows(self, t)
    IN  IF R = {} THEN [self |-> self, out |-> Raise("AssertionError")]
        ELSE IF Len(wplus) # Len(self.returns[1])
             THEN [self |-> self, out |-> Raise("ValueError")]
        ELSE LET e == Expr(Div(SumOver([s \in R |->
                                   Square(DotNums(self.returns[s], wplus))], R),
                               Num(self.lookback)))
             IN  [self |-> SetAttr(self, "expression", e), out |-> e]

\* holdings with and without the cash entry
AllHoldings ==
    { << Rat(1, 2), Rat(1, 2), Num(0) >>, << Num(1), Rat(-1, 2), Rat(1, 2) >>,
      Vec(5, 5, 10) }

\* the panels of the first hand-over: each row the revision of the one before
FirstPanels == { P \in Panels : \A t \in Times \ {1} : P[t] = RevisedRow(P[t - 1]) }

\* the panel the driver hands over next: the same, or its first row revised
NextPanels(P) == { P, [P EXCEPT ![1] = RevisedRow(@)] }

InitLifecycle ==
    /\ returns \in FirstPanels
    /\ obj = NoObject
    /\ before = NoRun
    /\ risk = NoObject
    /\ wc = NoObject
    /\ ret = CalledWith("none", "none", <<>>, None)

Step_pre_evaluation(P) ==
    /\ IsWindowModel(obj)
    /\ returns' = P
    /\ obj' = PreEvaluation(obj, P)
    /\ before' = IF Populated(obj) THEN [returns |-> returns, obj |-> obj] ELSE NoRun
    /\ ret' = CalledWith("pre_evaluation", obj.cls, <<>>, None)
    /\ UNCHANGED <<risk, wc>>

Step_compile_to_cvxpy(t, w_plus) ==
    /\ IsWindowModel(obj)
    /\ ret' = CalledWith("compile_to_cvxpy", obj.cls, [t |-> t, w_plus |-> w_plus],
                         CompileToCvxpy(obj, t, w_plus))
    /\ UNCHANGED <<returns, obj, before, risk, wc>>

Step_EmpSigma__estimate(t, wplus) ==
    /\ obj.cls = "EmpSigma"
    /\ LET r == EmpSigma__estimate(obj, t, wplus, NoTrades, NoValue)
       IN  /\ obj' = r.self
           /\ ret' = CalledWith("_estimate", obj.cls,
                                [t |-> t, w_plus |-> wplus,
                                 read |-> EmpSigma_rows(obj, t)],
                                r.out)
    /\ UNCHANGED <<returns, before, risk, wc>>

NextLifecycle ==
    \/ \E c \in Constructions(returns) : Step_construct(c)
    \/ \E P \in NextPanels(returns) : Step_pre_evaluation(P)
    \/ \E t \in Times : \E w \in AllHoldings : Step_compile_to_cvxpy(t, w)
    \/ \E t \in Times : \E w \in AllHoldings : Step_EmpSigma__estimate(t, w)

SpecLifecycle == InitLifecycle /\ [][NextLifecycle]_vars

(***************************************************************************)
(* Claims about the life of a model (checked under SpecLifecycle).         *)
(***************************************************************************)
\* the timestamps of the rows at 0-based positions
\* [max(idx - 1 - lookback, 0), idx - 1), idx the position of t
IntendedRows(lookback, t) ==
    LET idx == t - 1
    IN  { s \in Times : Max(idx - 1 - lookback, 0) <= s - 1 /\ s - 1 < idx - 1 }

\* C12: at every timestamp t, the first and the second of the panel
\* included, EmpSigma._estimate reads only rows at positions
\* [max(idx - 1 - lookback, 0), idx - 1): never the row before t, never a
\* row at or after t.
C12_ReadsOnlyBefore ==
    ret.call = "_estimate" =>
        /\ ret.args.read \subseteq IntendedRows(obj.lookback, ret.args.t)
        /\ \A s \in ret.args.read : s < ret.args.t - 1

\* the model as its constructor left it: the derived parameter removed
Unpopulated(self) == [a \in (DOMAIN self) \ {ParamName(self)} |-> self[a]]

\* C13: a window model has no parameter between construction and
\* pre_evaluation, so a compile_to_cvxpy issued then raises instead of
\* returning a term; once pre_evaluation has run, the parameter the model
\* holds at every compile_to_cvxpy is the one derived from the panel of the
\* most recent pre_evaluation, the term is built on it, and the compile
\* leaves the model as it was.
C13_ParameterLifecycle ==
    /\ (ret.call = "__init__" /\ IsWindowModel(obj) /\ obj.cls = ret.on)
          => ~Populated(obj)
    /\ (ret.call = "compile_to_cvxpy" /\ ~Populated(obj))
          => ret.result = Raise("AttributeError")
    /\ (ret.call = "compile_to_cvxpy" /\ Populated(obj)) =>
          /\ obj = PreEvaluation(Unpopulated(obj), returns)
          /\ ret.result = Compile(PreEvaluation(Unpopulated(obj), returns),
                                  ret.args.t, ret.args.w_plus)

\* a term compiled after a second pre_evaluation on a revised panel, whose
\* parameter at the timestamp differs from the one of the run before
C13_Witness ==
    /\ ret.call = "compile_to_cvxpy"
    /\ Populated(obj)
    /\ ret.result.kind = "expr"
    /\ before # NoRun
    /\ ParamAt(before.obj, ret.args.t) # ParamAt(obj, ret.args.t)

(***************************************************************************)
(* The diagnostic of a single risk model: FullCovariance built from a      *)
(* constant Sigma, then set_benchmark, weight_expr and optimization_log in *)
(* any order.  The holdings a term is built on are a cvxpy Variable: until *)
(* a solve has given it a value, the term's value is None.                 *)
(***************************************************************************)
\* the term before its variable has a value
Unvalued(e) == [e EXCEPT !.value = None]

\* bool(x) of an expression's value: None and zero are false
Truthy(v) == v # None /\ (IsNaN(v) \/ v.n # 0)

\* if self.expression.value: return self.expression.value
\* else: return np.NaN
BaseRiskModel_optimization_log(self, t) ==
    IF ~HasAttr(self, "expression") THEN Raise("AttributeError")
    ELSE IF Truthy(self.expression.value) THEN self.expression.value
    ELSE NaN

LogHoldings == Holdings \cup { Vec(0, 0, 10) }

InitLog ==
    /\ returns = <<>>
    /\ obj = NoObject
    /\ before = NoRun
    /\ \E S \in Sigmas : risk = [full |-> FullCovariance(S)]
    /\ wc = NoObject
    /\ ret = Called("__init__", "full", <<>>, None)

\* weight_expr on holdings that a solve has valued (solved) or not
Step_BaseRiskModel_weight_expr(t, w_plus, solved) ==
    LET r == BaseRiskModel_weight_expr(risk.full, t, w_plus, NoTrades, NoValue)
        e == IF solved THEN r.self.expression ELSE Unvalued(r.self.expression)
    IN  /\ risk' = [risk EXCEPT !.full =
                       IF r.out.kind = "raise" THEN r.self
                       ELSE SetAttr(r.self, "expression", e)]
        /\ ret' = Called("weight_expr", "full", w_plus,
                         IF r.out.kind = "raise" THEN r.out
                         ELSE Tuple(<<e, <<>>>>))
        /\ UNCHANGED <<returns, obj, before, wc>>

Step_BaseRiskModel_optimization_log(t) ==
    /\ ret' = Called("optimization_log", "full", <<>>,
                     BaseRiskModel_optimization_log(risk.full, t))
    /\ UNCHANGED <<returns, obj, before, risk, wc>>

NextLog ==
    \/ \E b \in Benchmarks : Step_set_benchmark("full", b)
    \/ \E w \in LogHoldings : \E solved \in BOOLEAN :
         Step_BaseRiskModel_weight_expr(1, w, solved)
    \/ Step_BaseRiskModel_optimization_log(1)

SpecLog == InitLog /\ [][NextLog]_vars

\* C14: optimization_log returns the value of the last compiled expression
\* whenever it has one, zero included, and NaN only when it has none.
C14_LogIsValue ==
    (ret.call = "optimization_log" /\ HasAttr(risk.full, "expression")) =>
        IF risk.full.expression.value # None
        THEN ret.result = risk.full.expression.value
        ELSE ret.result = NaN

====
